---- MODULE Spec2Model ----
(***************************************************************************)
(* Billing and invoice generation of the hospital back-office API.        *)
(*                                                                         *)
(* The persistent store (invoices, billing settings, medication stock) is  *)
(* shared by request handlers that run as interleaved asynchronous tasks:  *)
(* every `await` on a query that reads or writes mutable data is one step. *)
(* Lookups of the directories the billing code never writes (patients,     *)
(* doctors, hospitals, appointments, prescriptions, lab tests) are folded  *)
(* into the step that issues them.                                         *)
(*                                                                         *)
(* Money is counted in whole currency units; every price used below is a   *)
(* multiple of 100, so that subtotal * gstPercentage / 100 is exact.       *)
(***************************************************************************)
EXTENDS Integers, Sequences, FiniteSets, TLC

\* ------------------------------------------------------------------ bounds
MaxTasks == 3
MaxTotalsTasks == 2
MaxNumberingTasks == 2
MaxPaymentDateTasks == 2
MaxItemsTasks == 2
MaxStatisticsTasks == 3
MaxPaymentInputTasks == 3
MaxConcurrentPaymentsTasks == 3
MaxTenantsTasks == 3
MaxRegisterTasks == 3
MaxMonth == 2

Tasks == 1..MaxTasks

\* ------------------------------------------------------- JavaScript values
NoId == 0

Undef == [k |-> "undef", v |-> 0]
NaN == [k |-> "nan", v |-> 0]
NotANumber == [k |-> "str", v |-> 0]
Num(n) == [k |-> "num", v |-> n]

\* parseFloat(x): a number stays, undefined and a non-numeric string give NaN
parseFloat(x) == IF x.k = "num" THEN x ELSE NaN

\* x || 0 on a number-or-NaN: NaN and 0 are falsy
OrZero(x) == IF x.k = "num" /\ x.v # 0 THEN x.v ELSE 0

\* strings the code inspects are sequences of characters
Lower(c) ==
  CASE c = "F" -> "f"
    [] c = "S" -> "s"
    [] c = "E" -> "e"
    [] OTHER -> c

toLowerCase(s) == [i \in DOMAIN s |-> Lower(s[i])]

includes(s, sub) ==
  \E i \in 0..(Len(s) - Len(sub)) : SubSeq(s, i + 1, i + Len(sub)) = sub

\* ------------------------------------------------------------------- Date
\* A Date is a count of instants, the smallest step of the clock.  The
\* calendar is regular: every day, week, month and year has the same length.
TicksPerDay == 2
DaysPerWeek == 3
DaysPerMonth == 2
MonthsPerYear == 2

TicksPerMonth == DaysPerMonth * TicksPerDay
TicksPerYear == MonthsPerYear * TicksPerMonth

\* new Date(d.getFullYear(), d.getMonth(), d.getDate())
startOfDay(d) == (d \div TicksPerDay) * TicksPerDay
\* new Date(d.getFullYear(), d.getMonth(), 1)
startOfMonth(d) == (d \div TicksPerMonth) * TicksPerMonth
\* new Date(d.getFullYear(), 0, 1)
startOfYear(d) == (d \div TicksPerYear) * TicksPerYear
\* d.getDay()
getDay(d) == (d \div TicksPerDay) % DaysPerWeek
\* the YYMM of a date
yearMonth(d) == d \div TicksPerMonth

\* the first instant of month 1, when the server starts
Epoch == TicksPerMonth

\* ------------------------------------------------------------- directories
PatientIds == {1, 2}
Patients == {1}
DoctorIds == {1, 2}
Doctors == {1}
HospitalIds == {1, 2, 3}
Hospitals == {1, 2}

TypeRegular == <<"r", "e", "g", "u", "l", "a", "r">>
TypeFollowUp == <<"f", "o", "l", "l", "o", "w", "-", "u", "p">>
TypeEmergency == <<"e", "m", "e", "r", "g", "e", "n", "c", "y">>
TypeTele ==
  <<"t", "e", "l", "e", "c", "o", "n", "s", "u", "l", "t", "a", "t", "i", "o", "n">>

\* appointmentSchema: patient, doctor, type (enum regular, follow-up, emergency,
\* teleconsultation).  Appointment 3 belongs to a patient record that is gone.
AppointmentIds == {1, 2, 3, 4}
Appointments == {1, 2, 3}
Appointment(id) ==
  CASE id = 1 -> [patient |-> 1, doctor |-> 1, type |-> TypeFollowUp]
    [] id = 2 -> [patient |-> 1, doctor |-> 1, type |-> TypeEmergency]
    [] OTHER -> [patient |-> 2, doctor |-> 1, type |-> TypeRegular]

MedicationIds == {1}
MedicationPrice(m) == 100

\* prescriptionSchema.medications.quantity has no minimum: prescription 3 was
\* stored with a negative quantity
PrescriptionIds == {1, 2, 3}
Prescriptions == {1, 3}
Prescription(id) ==
  [patient |-> 1, doctor |-> 1,
   medications |-> <<[medication |-> 1, quantity |-> IF id = 3 THEN -2 ELSE 2]>>]

LabTestIds == {1, 2, 3}
LabTests == {1, 2}
LabTestPrice(id) == IF id = 1 THEN 200 ELSE 0

\* ---------------------------------------------------------- BillingSettings
NoSettings == [exists |-> FALSE]

DefaultSettings ==
  [exists |-> TRUE,
   consultationFees |->
     [standard |-> 500, followUp |-> 300, specialist |-> 1000, emergency |-> 1500],
   gstPercentage |-> 18,
   invoicePrefix |-> "INV"]

ReducedTaxSettings == [DefaultSettings EXCEPT !.gstPercentage = 5]

\* ------------------------------------------------------------ TotalsCalculator
RECURSIVE SumAmounts(_)
SumAmounts(items) ==
  IF items = <<>> THEN 0 ELSE Head(items).amount + SumAmounts(Tail(items))

\* amount: item.amount || (item.quantity * item.unitPrice)
ItemAmountFalsy(item) ==
  IF item.amount.k = "num" /\ item.amount.v # 0
  THEN item.amount.v
  ELSE item.quantity * item.unitPrice

ItemAmount(item) == ItemAmountFalsy(item)

\* the tax left out of the total
calculateTotalsWithoutTax(items, gstPercentage) ==
  LET processedItems ==
        [i \in DOMAIN items |->
          [quantity |-> items[i].quantity,
           unitPrice |-> items[i].unitPrice,
           amount |-> ItemAmount(items[i])]]
      subtotal == SumAmounts(processedItems)
      gstAmount == (subtotal * gstPercentage) \div 100
  IN [processedItems |-> processedItems,
      subtotal |-> subtotal,
      gstAmount |-> gstAmount,
      totalAmount |-> subtotal]

calculateTotals(items, gstPercentage) ==
  LET processedItems ==
        [i \in DOMAIN items |->
          [quantity |-> items[i].quantity,
           unitPrice |-> items[i].unitPrice,
           amount |-> ItemAmount(items[i])]]
      subtotal == SumAmounts(processedItems)
      gstAmount == (subtotal * gstPercentage) \div 100
  IN [processedItems |-> processedItems,
      subtotal |-> subtotal,
      gstAmount |-> gstAmount,
      totalAmount |-> subtotal + gstAmount]

\* ---------------------------------------------------------- PaymentStateMachine
NoDate == 0

\* the payment date stamped on every save of a paid invoice
preSaveStampsAgain(doc, today) ==
  [doc EXCEPT
    !.balanceDue = doc.totalAmount - doc.paidAmount,
    !.paymentStatus =
      IF doc.paidAmount <= 0 THEN "unpaid"
      ELSE IF doc.paidAmount < doc.totalAmount THEN "partial"
      ELSE "paid",
    !.paymentDate =
      IF doc.paidAmount > 0 /\ doc.paidAmount >= doc.totalAmount THEN today ELSE @]

\* invoiceSchema.pre('save')
preSave(doc, today) ==
  [doc EXCEPT
    !.balanceDue = doc.totalAmount - doc.paidAmount,
    !.paymentStatus =
      IF doc.paidAmount <= 0 THEN "unpaid"
      ELSE IF doc.paidAmount < doc.totalAmount THEN "partial"
      ELSE "paid",
    !.paymentDate =
      IF doc.paidAmount > 0 /\ doc.paidAmount >= doc.totalAmount /\ doc.paymentDate = NoDate
      THEN today
      ELSE doc.paymentDate]

\* the validators of invoiceSchema and invoiceItemSchema
InvoiceTypes == {"consultation", "laboratory", "pharmacy"}
PaymentMethods == {"Cash", "UPI", "Card", "Insurance", "Other"}

validate(doc) ==
  /\ doc.invoiceType \in InvoiceTypes
  /\ doc.customerType = "registered" => doc.patient # NoId
  /\ \A i \in DOMAIN doc.items :
       doc.items[i].quantity >= 1 /\ doc.items[i].unitPrice >= 0
  /\ doc.subtotal >= 0
  /\ doc.totalAmount >= 0
  /\ doc.paidAmount >= 0
  /\ doc.paymentMethod \in PaymentMethods
  /\ doc.hospital # NoId


\* --------------------------------------------------------------- requests
\* consultationFees of a request that names no fee tier
NoFees ==
  [standard |-> Undef, followUp |-> Undef, specialist |-> Undef, emergency |-> Undef]

Body0 ==
  [patientId |-> NoId, doctorId |-> NoId, appointmentId |-> NoId,
   prescriptionId |-> NoId, labTestId |-> NoId, labTestIds |-> <<>>,
   invoiceType |-> "", items |-> <<>>, paymentMethod |-> "",
   paidAmount |-> Undef, paymentDate |-> NoDate, id |-> NoId,
   customerName |-> "",
   consultationFees |-> NoFees, gstPercentage |-> Undef, invoicePrefix |-> "",
   path |-> <<>>, period |-> "", role |-> "", email |-> "", firstName |-> ""]

ItemA == [quantity |-> 2, unitPrice |-> 500, amount |-> Undef]
ItemB == [quantity |-> 1, unitPrice |-> 1000, amount |-> Undef]
ItemFree == [quantity |-> 1, unitPrice |-> 0, amount |-> Undef]
ItemDiscount == [quantity |-> 2, unitPrice |-> 500, amount |-> Num(900)]
ItemNegative == [quantity |-> -1, unitPrice |-> 500, amount |-> Undef]
ItemNegativePrice == [quantity |-> 1, unitPrice |-> -500, amount |-> Undef]
ItemZeroAmount == [quantity |-> 1, unitPrice |-> 500, amount |-> Num(0)]

\* a request: the tenant of the authenticated user and what the request
\* carries (body, path, query and the role of its user)
Request(h, body) == [hospitalId |-> h, body |-> body]

ManualBase ==
  [Body0 EXCEPT !.patientId = 1, !.doctorId = 1, !.invoiceType = "consultation",
                !.items = <<ItemA, ItemB>>, !.paymentMethod = "Cash"]

ConsultationBody(a) == [Body0 EXCEPT !.appointmentId = a]
LabBody(p, l) == [Body0 EXCEPT !.patientId = p, !.labTestIds = l]
PharmacyBody(r) == [Body0 EXCEPT !.prescriptionId = r]
PaymentBody(i, a) == [Body0 EXCEPT !.id = i, !.paidAmount = a]
WalkInBody(n, l) == [Body0 EXCEPT !.customerName = n, !.items = l]

WalkInItem == [medicationId |-> 1, quantity |-> 2, unitPrice |-> 0]

\* ------------------------------------------------------------------ state
VARIABLES
  task,      \* the handler invocation of each request: operation, position, locals
  resp,      \* the response the client of each request has received
  invoices,  \* the Invoice collection, in insertion order (_id = position)
  settings,  \* the BillingSettings collection, one slot per hospital (unique index)
  stock,     \* Medication.stock
  now,       \* the clock: what `new Date()` and Date.now() return
  users,     \* the User collection
  cache      \* the response cache (Redis): key -> cached response body

vars == <<task, resp, invoices, settings, stock, now, users, cache>>

NoDoc == [id |-> NoId]

\* config.cache.enabled is false unless CACHE_ENABLED is set: no cache
NoEntries == [k \in {} |-> NoDoc]
NoCache == [enabled |-> FALSE, entries |-> NoEntries]
NoResp == [status |-> 0, kind |-> "none", invoiceId |-> NoId]
Resp(status, kind, id) == [status |-> status, kind |-> kind, invoiceId |-> id]

\* op, pc, inner, hospitalId, body, bs, doc and orig are the handler's own data.
\* Four fields record its history: `after`, the requests already answered when
\* this one arrived; `seen`, for a GET, the number of invoices persisted when
\* it arrived; `wrote`, whether it has written to the store; `outcome`, how
\* its handler chain ended (through res.json, next(err) or a rejection).
Idle ==
  [op |-> "idle", pc |-> "idle", inner |-> FALSE, hospitalId |-> NoId,
   body |-> Body0, bs |-> NoSettings, doc |-> NoDoc, orig |-> NoDoc,
   after |-> {}, seen |-> 0, wrote |-> FALSE, outcome |-> "none"]

Answered == {u \in Tasks : resp[u] # NoResp}

NewTask(op, h, body) ==
  [Idle EXCEPT !.op = op, !.hospitalId = h, !.body = body, !.after = Answered]

Done(tk) ==
  [tk EXCEPT !.pc = "done", !.bs = NoSettings, !.doc = NoDoc, !.orig = NoDoc]

Ended(tk, r) == [Done(tk) EXCEPT !.outcome = r.kind]

GenerateOps == {"consultation", "laboratory", "pharmacy"}

Init ==
  /\ task = [t \in Tasks |-> Idle]
  /\ resp = [t \in Tasks |-> NoResp]
  /\ invoices = <<>>
  /\ settings = [h \in HospitalIds |-> NoSettings]
  /\ stock = [m \in MedicationIds |-> 10]
  /\ now = Epoch
  /\ users = {}
  /\ cache = NoCache

\* requests are numbered in the order they arrive
Arrives(t) == task[t].op = "idle" /\ \A u \in Tasks : u < t => task[u].op # "idle"

\* a handler ends: through res.json, next(err) or a rejected promise.  The
\* inner createInvoice started by a generate* handler is given a res whose
\* json() only returns its argument and a next that does nothing.
Finish(t, tk, r) ==
  /\ task' = [task EXCEPT ![t] = Ended(tk, r)]
  /\ resp' = IF tk.inner THEN resp ELSE [resp EXCEPT ![t] = r]


\* ------------------------------------------------------------ createInvoice
\* the required-field check and the patient, doctor and hospital lookups
createInvoiceLookup(h, body) ==
  IF body.patientId = NoId \/ body.invoiceType = "" \/ body.items = <<>> THEN "missing"
  ELSE IF body.patientId \notin Patients THEN "patient"
  ELSE IF body.doctorId # NoId /\ body.doctorId \notin Doctors THEN "doctor"
  ELSE IF h \notin Hospitals THEN "hospital"
  ELSE "found"

\* next(new AppError(...)) of the failed check, or no answer yet
createInvoiceEntryResp(tk) ==
  LET r == createInvoiceLookup(tk.hospitalId, tk.body)
  IN IF r = "found" THEN NoResp
     ELSE IF r = "missing" THEN Resp(400, "validation", NoId)
     ELSE Resp(404, "notfound", NoId)

createInvoiceEntry(tk) ==
  IF createInvoiceLookup(tk.hospitalId, tk.body) = "found"
  THEN [tk EXCEPT !.pc = "settings"]
  ELSE Ended(tk, createInvoiceEntryResp(tk))

\* POST /billing/invoices
CreateInvoice(t, Requests) ==
  /\ Arrives(t)
  /\ \E rq \in Requests :
       LET body == rq.body
           tk == NewTask("manual", rq.hospitalId, body)
       IN /\ task' = [task EXCEPT ![t] = createInvoiceEntry(tk)]
          /\ resp' = [resp EXCEPT ![t] = createInvoiceEntryResp(tk)]
  /\ UNCHANGED <<invoices, settings, stock, now, users, cache>>

\* Invoice.generateInvoiceNumber: PREFIX-YYMM-(count + 1), count over the
\* hospital's invoices.  The number is the triple its text spells out.
CountPlusOne(h) == Cardinality({i \in DOMAIN invoices : invoices[i].hospital = h}) + 1

generateInvoiceNumber(prefix, h) == <<prefix, yearMonth(now), CountPlusOne(h)>>

\* the document createInvoice builds after the number arrives
newInvoice(tk, t, invoiceNumber) ==
  LET body == tk.body
      totals == calculateTotals(body.items, tk.bs.gstPercentage)
      paidAmt == OrZero(parseFloat(body.paidAmount))
      paymentStatus ==
        IF paidAmt = 0 THEN "unpaid"
        ELSE IF paidAmt < totals.totalAmount THEN "partial"
        ELSE "paid"
  IN [id |-> NoId,
      invoiceNumber |-> invoiceNumber,
      invoiceDate |-> now,
      customerType |-> "registered",
      customerName |-> "",
      patient |-> body.patientId,
      doctor |-> body.doctorId,
      appointment |-> body.appointmentId,
      prescription |-> body.prescriptionId,
      labTest |-> body.labTestId,
      invoiceType |-> body.invoiceType,
      items |-> totals.processedItems,
      subtotal |-> totals.subtotal,
      gstPercentage |-> tk.bs.gstPercentage,
      gstAmount |-> totals.gstAmount,
      totalAmount |-> totals.totalAmount,
      paidAmount |-> paidAmt,
      balanceDue |-> totals.totalAmount - paidAmt,
      paymentMethod |-> IF body.paymentMethod = "" THEN "Cash" ELSE body.paymentMethod,
      paymentStatus |-> paymentStatus,
      paymentDate |-> IF paymentStatus = "paid" THEN now ELSE NoDate,
      hospital |-> tk.hospitalId,
      request |-> t]

\* await Invoice.generateInvoiceNumber(...), then new Invoice({...})
GenerateNumber(t) ==
  /\ task[t].pc = "number"
  /\ LET tk == task[t]
         number == generateInvoiceNumber(tk.bs.invoicePrefix, tk.hospitalId)
     IN task' = [task EXCEPT ![t] = [tk EXCEPT !.pc = "save",
                                               !.doc = newInvoice(tk, t, number)]]
  /\ UNCHANGED <<resp, invoices, settings, stock, now, users, cache>>

\* no index on invoiceNumber
NumberTakenNever(number) == FALSE

\* the unique index on invoiceNumber
NumberTaken(number) == \E i \in DOMAIN invoices : invoices[i].invoiceNumber = number

\* await invoice.save() of a new document: validation, the pre-save hook, the
\* insert; then the 201 response
SaveInvoice(t) ==
  /\ task[t].pc = "save"
  /\ LET tk == task[t]
         id == Len(invoices) + 1
     IN IF ~validate(tk.doc)
        THEN Finish(t, tk, Resp(400, "validation", NoId)) /\ UNCHANGED invoices
        ELSE IF NumberTaken(tk.doc.invoiceNumber)
        THEN Finish(t, tk, Resp(400, "duplicate", NoId)) /\ UNCHANGED invoices
        ELSE /\ invoices' = Append(invoices, [preSave(tk.doc, now) EXCEPT !.id = id])
             /\ Finish(t, [tk EXCEPT !.wrote = TRUE], Resp(201, "success", id))
  /\ UNCHANGED <<settings, stock, now, users, cache>>


\* ------------------------------------------- generate*Invoice: the line items
LabelStandard == <<"s", "t", "a", "n", "d", "a", "r", "d">>
WordFollow == <<"f", "o", "l", "l", "o", "w">>
WordSpecialist == <<"s", "p", "e", "c", "i", "a", "l", "i", "s", "t">>
WordEmergency == <<"e", "m", "e", "r", "g", "e", "n", "c", "y">>

\* appointment.appointmentType: appointmentSchema declares `type` and no path
\* of this name, so the property is undefined (the empty text here)
appointmentType(appointment) == <<>>

\* appointment.appointmentType?.toLowerCase() || 'standard'
consultationLabel(appointment) ==
  IF appointmentType(appointment) = <<>>
  THEN LabelStandard
  ELSE toLowerCase(appointmentType(appointment))

consultationFee(label, fees) ==
  IF includes(label, WordFollow) THEN fees.followUp
  ELSE IF includes(label, WordSpecialist) THEN fees.specialist
  ELSE IF includes(label, WordEmergency) THEN fees.emergency
  ELSE fees.standard

\* paymentMethod || 'Cash', parseFloat(paidAmount) || 0
generatedBody(body) ==
  [body EXCEPT !.paymentMethod = IF body.paymentMethod = "" THEN "Cash" ELSE body.paymentMethod,
               !.paidAmount = Num(OrZero(parseFloat(body.paidAmount)))]

consultationInvoiceData(body, bs) ==
  LET appointment == Appointment(body.appointmentId)
      feeAmount == consultationFee(consultationLabel(appointment), bs.consultationFees)
  IN [generatedBody(body) EXCEPT
        !.patientId = appointment.patient,
        !.doctorId = appointment.doctor,
        !.invoiceType = "consultation",
        !.items = <<[quantity |-> 1, unitPrice |-> feeAmount, amount |-> Num(feeAmount)]>>]

\* LabTest.find({ _id: { $in: labTestIds } })
foundLabTests(labTestIds) == SelectSeq(labTestIds, LAMBDA id : id \in LabTests)

labInvoiceData(body, bs) ==
  LET labTests == foundLabTests(body.labTestIds)
  IN [generatedBody(body) EXCEPT
        !.invoiceType = "laboratory",
        !.items = [i \in DOMAIN labTests |->
                    [quantity |-> 1,
                     unitPrice |-> LabTestPrice(labTests[i]),
                     amount |-> Num(LabTestPrice(labTests[i]))]]]

pharmacyInvoiceData(body, bs) ==
  LET prescription == Prescription(body.prescriptionId)
      meds == prescription.medications
  IN [generatedBody(body) EXCEPT
        !.patientId = prescription.patient,
        !.doctorId = prescription.doctor,
        !.invoiceType = "pharmacy",
        !.items = [i \in DOMAIN meds |->
                    [quantity |-> meds[i].quantity,
                     unitPrice |-> MedicationPrice(meds[i].medication),
                     amount |-> Num(MedicationPrice(meds[i].medication) * meds[i].quantity)]]]

invoiceData(tk, bs) ==
  CASE tk.op = "consultation" -> consultationInvoiceData(tk.body, bs)
    [] tk.op = "laboratory" -> labInvoiceData(tk.body, bs)
    [] OTHER -> pharmacyInvoiceData(tk.body, bs)

\* reading a field of a populated reference whose record is gone throws
populatedRefMissing(tk) ==
  /\ tk.op = "consultation"
  /\ \/ Appointment(tk.body.appointmentId).patient \notin Patients
     \/ Appointment(tk.body.appointmentId).doctor \notin Doctors

\* catchAsync(fn) returns (req, res, next) => { Promise.resolve(fn(...)).catch(...) }:
\* the wrapper returns nothing, so `await exports.createInvoice(...)` yields
\* undefined at once and the generate* handler answers 201 with that, while
\* the createInvoice it started runs on with its own res and next.
callCreateInvoice(t, tk, bs) ==
  LET called == [tk EXCEPT !.inner = TRUE, !.body = invoiceData(tk, bs)]
  IN /\ task' = [task EXCEPT ![t] = createInvoiceEntry(called)]
     /\ resp' = [resp EXCEPT ![t] = Resp(201, "success", NoId)]

\* what follows `const billingSettings = ...` in each handler
afterSettings(t, tk, bs) ==
  IF tk.op = "settings-get"
  THEN Finish(t, tk, Resp(200, "success", NoId))
  ELSE IF tk.op \in GenerateOps /\ ~tk.inner
  THEN IF populatedRefMissing(tk)
       THEN Finish(t, tk, Resp(500, "error", NoId))
       ELSE callCreateInvoice(t, tk, bs)
  ELSE /\ task' = [task EXCEPT ![t] = [tk EXCEPT !.pc = "number", !.bs = bs]]
       /\ UNCHANGED resp

\* await BillingSettings.findOne({ hospital: hospitalId })
ResolveSettings(t) ==
  /\ task[t].pc = "settings"
  /\ LET tk == task[t]
     IN IF settings[tk.hospitalId].exists
        THEN afterSettings(t, tk, settings[tk.hospitalId])
        ELSE /\ task' = [task EXCEPT ![t] = [tk EXCEPT !.pc = "settings_create"]]
             /\ UNCHANGED resp
  /\ UNCHANGED <<invoices, settings, stock, now, users, cache>>

\* || await BillingSettings.create({ hospital: hospitalId, updatedBy: userId });
\* the unique index on hospital rejects a second record
CreateSettings(t) ==
  /\ task[t].pc = "settings_create"
  /\ LET tk == task[t]
     IN IF settings[tk.hospitalId].exists
        THEN Finish(t, tk, Resp(400, "duplicate", NoId)) /\ UNCHANGED settings
        ELSE /\ settings' = [settings EXCEPT ![tk.hospitalId] = DefaultSettings]
             /\ afterSettings(t, [tk EXCEPT !.wrote = TRUE], DefaultSettings)
  /\ UNCHANGED <<invoices, stock, now, users, cache>>

\* -------------------------------------------------- generate*Invoice: entry
\* POST /billing/invoices/consultation
GenerateConsultationInvoice(t, Requests) ==
  /\ Arrives(t)
  /\ \E rq \in Requests :
       LET body == rq.body
           tk == NewTask("consultation", rq.hospitalId, body)
       IN IF body.appointmentId = NoId
          THEN Finish(t, tk, Resp(400, "validation", NoId))
          ELSE IF body.appointmentId \notin Appointments
          THEN Finish(t, tk, Resp(404, "notfound", NoId))
          ELSE /\ task' = [task EXCEPT ![t] = [tk EXCEPT !.pc = "check"]]
               /\ UNCHANGED resp
  /\ UNCHANGED <<invoices, settings, stock, now, users, cache>>

\* POST /billing/invoices/pharmacy
GeneratePharmacyInvoice(t, Requests) ==
  /\ Arrives(t)
  /\ \E rq \in Requests :
       LET body == rq.body
           tk == NewTask("pharmacy", rq.hospitalId, body)
       IN IF body.prescriptionId = NoId
          THEN Finish(t, tk, Resp(400, "validation", NoId))
          ELSE IF body.prescriptionId \notin Prescriptions
          THEN Finish(t, tk, Resp(404, "notfound", NoId))
          ELSE /\ task' = [task EXCEPT ![t] = [tk EXCEPT !.pc = "check"]]
               /\ UNCHANGED resp
  /\ UNCHANGED <<invoices, settings, stock, now, users, cache>>

\* POST /billing/invoices/laboratory
GenerateLabInvoice(t, Requests) ==
  /\ Arrives(t)
  /\ \E rq \in Requests :
       LET body == rq.body
           tk == NewTask("laboratory", rq.hospitalId, body)
       IN IF body.labTestIds = <<>> \/ body.patientId = NoId
          THEN Finish(t, tk, Resp(400, "validation", NoId))
          ELSE IF body.patientId \notin Patients
          THEN Finish(t, tk, Resp(404, "notfound", NoId))
          ELSE IF foundLabTests(body.labTestIds) = <<>>
          THEN Finish(t, tk, Resp(404, "notfound", NoId))
          ELSE /\ task' = [task EXCEPT ![t] = [tk EXCEPT !.pc = "settings"]]
               /\ UNCHANGED resp
  /\ UNCHANGED <<invoices, settings, stock, now, users, cache>>

\* Invoice.findOne({ appointment: appointmentId }) / ({ prescription: prescriptionId })
existingInvoice(tk) ==
  {i \in DOMAIN invoices :
     IF tk.op = "consultation"
     THEN invoices[i].appointment = tk.body.appointmentId
     ELSE invoices[i].prescription = tk.body.prescriptionId}

FirstOf(S) == CHOOSE i \in S : \A j \in S : i <= j

\* the existence check of generateConsultationInvoice and generatePharmacyInvoice
CheckExisting(t) ==
  /\ task[t].pc = "check"
  /\ LET tk == task[t]
     IN IF existingInvoice(tk) # {}
        THEN Finish(t, tk, Resp(400, "exists", FirstOf(existingInvoice(tk))))
        ELSE /\ task' = [task EXCEPT ![t] = [tk EXCEPT !.pc = "settings"]]
             /\ UNCHANGED resp
  /\ UNCHANGED <<invoices, settings, stock, now, users, cache>>


\* ------------------------------------------------------ updateInvoicePayment
\* parseFloat(paidAmount) is NaN: the Number path cannot take it
paidAmountCastFails(body) ==
  body.paidAmount.k # "undef" /\ parseFloat(body.paidAmount).k # "num"

\* the balance assigned to totalAmount instead of balanceDue
paymentFieldsIntoTotal(invoice, body, today) ==
  LET paid == IF body.paidAmount.k # "undef" THEN parseFloat(body.paidAmount).v
              ELSE invoice.paidAmount
  IN [invoice EXCEPT !.paidAmount = paid, !.totalAmount = invoice.totalAmount - paid]

\* the assignments the handler makes to the loaded document, derived fields included
paymentFields(invoice, body, today) ==
  preSave(
    [invoice EXCEPT
       !.paidAmount = IF body.paidAmount.k # "undef" THEN parseFloat(body.paidAmount).v ELSE @,
       !.paymentMethod = IF body.paymentMethod # "" THEN body.paymentMethod ELSE @,
       !.paymentDate = IF body.paymentDate # NoDate THEN body.paymentDate ELSE @],
    today)

\* PUT /billing/invoices/:id/payment: Invoice.findById(id) and the assignments.
\* A paidAmount that cannot be cast makes the save fail without writing.
UpdateInvoicePayment(t, Requests) ==
  /\ Arrives(t)
  /\ \E rq \in Requests :
       LET body == rq.body
           tk == NewTask("payment", rq.hospitalId, body)
       IN IF body.id \notin DOMAIN invoices
          THEN Finish(t, tk, Resp(404, "notfound", NoId))
          ELSE IF paidAmountCastFails(body)
          THEN Finish(t, tk, Resp(400, "validation", NoId))
          ELSE /\ task' = [task EXCEPT ![t] =
                             [tk EXCEPT !.pc = "payment_save",
                                        !.orig = invoices[body.id],
                                        !.doc = paymentFields(invoices[body.id], body, now)]]
               /\ UNCHANGED resp
  /\ UNCHANGED <<invoices, settings, stock, now, users, cache>>

\* save() of a loaded document writes the paths whose value was changed
modifiedPaths(stored, orig, doc) ==
  [f \in DOMAIN stored |-> IF doc[f] # orig[f] THEN doc[f] ELSE stored[f]]

\* await invoice.save() of updateInvoicePayment, then the 200 response
SavePayment(t) ==
  /\ task[t].pc = "payment_save"
  /\ LET tk == task[t]
         id == tk.orig.id
     IN IF ~validate(tk.doc)
        THEN Finish(t, tk, Resp(400, "validation", NoId)) /\ UNCHANGED invoices
        ELSE /\ invoices' = [invoices EXCEPT
                               ![id] = modifiedPaths(@, tk.orig, preSave(tk.doc, now))]
             /\ Finish(t, [tk EXCEPT !.wrote = TRUE], Resp(200, "success", id))
  /\ UNCHANGED <<settings, stock, now, users, cache>>

\* ---------------------------------------------------------- billing settings
\* GET /billing/settings: getBillingSettings up to its findOne, which
\* ResolveSettings and CreateSettings carry on
GetBillingSettings(t, Requests) ==
  /\ Arrives(t)
  /\ \E rq \in Requests :
       task' = [task EXCEPT ![t] =
                  [NewTask("settings-get", rq.hospitalId, rq.body) EXCEPT !.pc = "settings"]]
  /\ UNCHANGED <<resp, invoices, settings, stock, now, users, cache>>

\* PUT /billing/settings, up to its findOne
UpdateBillingSettings(t, Requests) ==
  /\ Arrives(t)
  /\ \E rq \in Requests :
       task' = [task EXCEPT ![t] =
                  [NewTask("settings-update", rq.hospitalId, rq.body) EXCEPT
                     !.pc = "settings_load"]]
  /\ UNCHANGED <<resp, invoices, settings, stock, now, users, cache>>

\* { ...billingSettings.consultationFees, ...consultationFees }
mergedFees(stored, sent) ==
  [tier \in DOMAIN stored |-> IF sent[tier].k = "num" THEN sent[tier].v ELSE stored[tier]]

\* a gstPercentage the Number path cannot cast
settingsCastFails(body) == body.gstPercentage.k \notin {"undef", "num"}

\* the assignments updateBillingSettings makes to the loaded or new document
settingsFields(bs, body) ==
  [bs EXCEPT
     !.consultationFees = mergedFees(@, body.consultationFees),
     !.gstPercentage = IF body.gstPercentage.k = "num" THEN body.gstPercentage.v ELSE @,
     !.invoicePrefix = IF body.invoicePrefix # "" THEN body.invoicePrefix ELSE @]

\* await BillingSettings.findOne({ hospital: hospitalId }), new BillingSettings
\* ({ hospital }) when there is none, and the assignments
LoadSettings(t) ==
  /\ task[t].pc = "settings_load"
  /\ LET tk == task[t]
         found == settings[tk.hospitalId]
         loaded == IF found.exists THEN found ELSE DefaultSettings
     IN task' = [task EXCEPT ![t] =
                   [tk EXCEPT !.pc = "settings_save",
                              !.orig = found,
                              !.doc = settingsFields(loaded, tk.body)]]
  /\ UNCHANGED <<resp, invoices, settings, stock, now, users, cache>>

\* await billingSettings.save(): an insert for a new document, which the
\* unique index on hospital may refuse, the modified paths for a loaded one;
\* billingSettingsSchema has no range validators
SaveSettings(t) ==
  /\ task[t].pc = "settings_save"
  /\ LET tk == task[t]
         h == tk.hospitalId
     IN IF settingsCastFails(tk.body)
        THEN Finish(t, tk, Resp(400, "validation", NoId)) /\ UNCHANGED settings
        ELSE IF ~tk.orig.exists /\ settings[h].exists
        THEN Finish(t, tk, Resp(400, "duplicate", NoId)) /\ UNCHANGED settings
        ELSE /\ settings' =
                  [settings EXCEPT
                     ![h] = IF tk.orig.exists
                            THEN modifiedPaths(settings[h], tk.orig, tk.doc)
                            ELSE tk.doc]
             /\ Finish(t, [tk EXCEPT !.wrote = TRUE], Resp(200, "success", NoId))
  /\ UNCHANGED <<invoices, stock, now, users, cache>>

\* ------------------------------------------------------------------ walk-in
\* req.user.hospital: authenticate attaches userId, role and hospitalId only
reqUserHospital(tk) == NoId

\* POST /walkin/pharmacy/invoice and POST /walkin/laboratory/invoice up to the
\* hospital lookup; past it the save is rejected, since createdBy is required
\* and req.user._id is not set either
walkInOutcome(tk) ==
  IF tk.body.customerName = "" \/ tk.body.items = <<>> THEN Resp(400, "validation", NoId)
  ELSE IF reqUserHospital(tk) \notin Hospitals THEN Resp(404, "notfound", NoId)
  ELSE Resp(500, "error", NoId)

\* Medication.findByIdAndUpdate(item.medicationId, {$inc: {stock: -item.quantity}})
\* for each item of the request
RECURSIVE Deducted(_, _)
Deducted(st, items) ==
  IF items = <<>> THEN st
  ELSE Deducted([st EXCEPT ![Head(items).medicationId] = @ - Head(items).quantity],
                Tail(items))

\* the stock deducted whether or not the invoice was saved
deductStockRegardless(st, items, r) == Deducted(st, items)

\* the deduction loop stands after `await invoice.save()`: it runs only in a
\* handler that got that far without an early return or an exception
deductStock(st, items, r) == IF r.kind = "success" THEN Deducted(st, items) ELSE st

CreatePharmacyInvoice(t, Requests) ==
  /\ Arrives(t)
  /\ \E rq \in Requests :
       LET body == rq.body
           tk == NewTask("walkin-pharmacy", rq.hospitalId, body)
       IN /\ Finish(t, tk, walkInOutcome(tk))
          /\ stock' = deductStock(stock, body.items, walkInOutcome(tk))
  /\ UNCHANGED <<invoices, settings, now, users, cache>>

CreateLaboratoryInvoice(t, Requests) ==
  /\ Arrives(t)
  /\ \E rq \in Requests :
       LET body == rq.body
           tk == NewTask("walkin-laboratory", rq.hospitalId, body)
       IN Finish(t, tk, walkInOutcome(tk))
  /\ UNCHANGED <<invoices, settings, stock, now, users, cache>>

\* -------------------------------------------------------------- the router
\* a path below /api/billing is its segments; a segment is a word or the text
\* of an ObjectId
Word(w) == [text |-> w, id |-> NoId]
IdText(i) == [text |-> "", id |-> i]
Param == Word(":id")

AllRoles == {"admin", "accountant", "doctor", "staff"}

Route(method, path, roles, cached, handler) ==
  [method |-> method, path |-> path, roles |-> roles, cached |-> cached,
   handler |-> handler]

\* billingRoutes.js, in the order the routes are registered; the handlers are
\* named by the operation they start
BillingRoutes ==
  <<Route("GET", <<Word("settings")>>, AllRoles, FALSE, "settings-get"),
    Route("PUT", <<Word("settings")>>, {"admin"}, FALSE, "settings-update"),
    Route("GET", <<Word("invoices")>>, AllRoles, TRUE, "getInvoices"),
    Route("GET", <<Word("invoices"), Param>>, AllRoles, TRUE, "getInvoiceById"),
    Route("POST", <<Word("invoices")>>, AllRoles, FALSE, "manual"),
    Route("PUT", <<Word("invoices"), Param, Word("payment")>>, AllRoles, FALSE, "payment"),
    Route("POST", <<Word("invoices"), Word("consultation")>>, AllRoles, FALSE, "consultation"),
    Route("POST", <<Word("invoices"), Word("laboratory")>>, AllRoles, FALSE, "laboratory"),
    Route("POST", <<Word("invoices"), Word("pharmacy")>>, AllRoles, FALSE, "pharmacy"),
    Route("GET", <<>>, AllRoles, FALSE, "getInvoices"),
    Route("GET", <<Param>>, AllRoles, FALSE, "getInvoiceById"),
    Route("POST", <<>>, AllRoles, FALSE, "manual"),
    Route("PUT", <<Param, Word("payment")>>, AllRoles, FALSE, "payment"),
    Route("GET", <<Word("statistics")>>, {"admin", "accountant"}, TRUE,
          "getBillingStatistics")>>

NoRoute == Route("", <<>>, {}, FALSE, "notFoundHandler")

\* a route pattern matches a path of the same length whose segments are those
\* of the pattern, a parameter standing for any segment
matches(route, method, path) ==
  /\ route.method = method
  /\ Len(route.path) = Len(path)
  /\ \A k \in DOMAIN path : route.path[k] = Param \/ route.path[k] = path[k]

\* Express hands the request to the first route that matches
dispatch(method, path) ==
  LET hits == {r \in DOMAIN BillingRoutes : matches(BillingRoutes[r], method, path)}
  IN IF hits = {} THEN NoRoute
     ELSE BillingRoutes[CHOOSE r \in hits : \A q \in hits : r <= q]

\* req.params.id of the matched route
paramId(route, path) ==
  LET at == {k \in DOMAIN path : route.path[k] = Param}
  IN IF at = {} THEN Word("") ELSE path[CHOOSE k \in at : TRUE]

\* ------------------------------------------------------- the response cache
\* req.user.id: authenticate attaches userId, role and hospitalId only
reqUserId(rq) == "undefined"

\* CacheService.generateKey: `${method}:${path}:${userId}`, the path being
\* req.originalUrl with its query string
generateKey(method, rq) == <<method, rq.body.path, rq.body.period, reqUserId(rq)>>

\* invalidateCache('billing:*') clears, after a successful POST or PUT, the
\* keys that begin with `billing:`; every key begins with the method, so it
\* clears none and the writing handlers leave the cache as it is.

\* cacheService.set(key, data, ttl)
cacheSet(c, key, data) ==
  [c EXCEPT !.entries = [k \in (DOMAIN c.entries) \cup {key} |->
                           IF k = key THEN data ELSE c.entries[k]]]

\* the cache middleware of a route answers a GET from the cache when it can
\* and stores the body of a 2xx answer otherwise
caches(tk) ==
  /\ cache.enabled
  /\ dispatch("GET", tk.body.path).cached

\* res.json of a GET handler, under the cache middleware of its route
Answer(t, tk, r) ==
  /\ Finish(t, tk, r)
  /\ cache' = IF caches(tk) /\ r.status >= 200 /\ r.status < 300
              THEN cacheSet(cache, generateKey("GET", [hospitalId |-> tk.hospitalId,
                                                        body |-> tk.body]), r)
              ELSE cache

\* ------------------------------------------------------------ date ranges
Range(start, end) == [start |-> start, end |-> end]

\* getDateRanges, for the clock reading d
getDateRanges(d) ==
  LET today == startOfDay(d)
      yesterday == today - TicksPerDay
      thisWeekStart == today - getDay(today) * TicksPerDay
      thisMonthStart == startOfMonth(today)
      thisYearStart == startOfYear(today)
      lastMonthStart == startOfMonth(thisMonthStart - TicksPerMonth)
      lastMonthEnd == thisMonthStart - TicksPerDay
  IN [today |-> Range(today, d),
      yesterday |-> Range(yesterday, today - 1),
      thisWeek |-> Range(thisWeekStart, d),
      thisMonth |-> Range(thisMonthStart, d),
      lastMonth |-> Range(lastMonthStart, lastMonthEnd),
      thisYear |-> Range(thisYearStart, d)]

Periods == {"today", "yesterday", "thisWeek", "thisMonth", "lastMonth", "thisYear"}

\* dateRanges[period] || dateRanges.thisMonth
selectedRange(period, d) ==
  IF period \in Periods THEN getDateRanges(d)[period] ELSE getDateRanges(d).thisMonth

\* ---------------------------------------------------- getBillingStatistics
\* { $match: { hospital, invoiceDate: { $gte: start, $lte: end } } }
matched(h, range) ==
  {i \in DOMAIN invoices :
     /\ invoices[i].hospital = h
     /\ invoices[i].invoiceDate >= range.start
     /\ invoices[i].invoiceDate <= range.end}

RECURSIVE SumField(_, _)
SumField(ids, field) ==
  IF ids = {} THEN 0
  ELSE LET i == CHOOSE j \in ids : TRUE
       IN invoices[i][field] + SumField(ids \ {i}, field)

\* $group with _id: null; without a group the handler fills in zeros
summaryOf(ids) ==
  [totalInvoices |-> Cardinality(ids),
   totalAmount |-> SumField(ids, "totalAmount"),
   paidAmount |-> SumField(ids, "paidAmount"),
   pendingAmount |-> SumField(ids, "balanceDue")]

\* $group by invoiceType, reduced to an object keyed by the types that occur
typeStats(ids) ==
  [key \in {invoices[i].invoiceType : i \in ids} |->
     LET of == {i \in ids : invoices[i].invoiceType = key}
     IN [count |-> Cardinality(of),
         totalAmount |-> SumField(of, "totalAmount"),
         paidAmount |-> SumField(of, "paidAmount"),
         pendingAmount |-> SumField(of, "balanceDue")]]

\* $group by paymentStatus
statusStats(ids) ==
  [key \in {invoices[i].paymentStatus : i \in ids} |->
     LET of == {i \in ids : invoices[i].paymentStatus = key}
     IN [count |-> Cardinality(of), totalAmount |-> SumField(of, "totalAmount")]]

\* $group by paymentMethod
methodStats(ids) ==
  [key \in {invoices[i].paymentMethod : i \in ids} |->
     LET of == {i \in ids : invoices[i].paymentMethod = key}
     IN [count |-> Cardinality(of), paidAmount |-> SumField(of, "paidAmount")]]

\* the statistics object the handler would build from its four aggregations
statisticsOf(h, period, d) ==
  LET range == selectedRange(period, d)
      ids == matched(h, range)
  IN [period |-> range,
      summary |-> summaryOf(ids),
      byType |-> typeStats(ids),
      byStatus |-> statusStats(ids),
      byPaymentMethod |-> methodStats(ids)]

\* billingController.js requires the models, logger, catchAsync and AppError
\* but not mongoose: `mongoose.Types.ObjectId(hospitalId)` is a ReferenceError
mongooseInScope == FALSE

\* the handler up to its response; the rejection reaches the error handler
getBillingStatistics(tk) ==
  IF ~mongooseInScope
  THEN Resp(500, "error", NoId)
  ELSE [status |-> 200, kind |-> "success", invoiceId |-> NoId,
        data |-> statisticsOf(tk.hospitalId, tk.body.period, now)]

\* ---------------------------------------------------------- GET requests
\* Invoice.findById(id): the id of the path must be the text of an ObjectId
getInvoiceById(tk) ==
  LET id == paramId(dispatch("GET", tk.body.path), tk.body.path).id
  IN IF id = NoId THEN Resp(400, "cast", NoId)
     ELSE IF id \notin DOMAIN invoices THEN Resp(404, "notfound", NoId)
     ELSE [status |-> 200, kind |-> "success", invoiceId |-> id, data |-> {id}]

\* Invoice.find({ hospital: hospitalId }) of a request without filters, whose
\* page holds every invoice found
getInvoices(tk, total) ==
  [status |-> 200, kind |-> "success", invoiceId |-> NoId,
   data |-> {i \in DOMAIN invoices : invoices[i].hospital = tk.hospitalId},
   total |-> total]

\* a GET below /api/billing: authenticate, the route, authorize, the cache
\* middleware, then the handler up to its first query
Get(t, Requests) ==
  /\ Arrives(t)
  /\ \E rq \in Requests :
       LET route == dispatch("GET", rq.body.path)
           tk == [NewTask(route.handler, rq.hospitalId, rq.body) EXCEPT
                    !.seen = Len(invoices)]
           key == generateKey("GET", rq)
       IN IF route = NoRoute
          THEN Finish(t, tk, Resp(404, "notfound", NoId)) /\ UNCHANGED cache
          ELSE IF rq.body.role \notin route.roles
          THEN Finish(t, tk, Resp(403, "forbidden", NoId)) /\ UNCHANGED cache
          ELSE IF cache.enabled /\ route.cached /\ key \in DOMAIN cache.entries
          THEN Finish(t, tk, [cache.entries[key] EXCEPT !.status = 200])
               /\ UNCHANGED cache
          ELSE IF route.handler = "getBillingStatistics"
          THEN Answer(t, tk, getBillingStatistics(tk))
          ELSE /\ task' = [task EXCEPT ![t] =
                             [tk EXCEPT !.pc =
                                CASE route.handler = "getInvoices" -> "count"
                                  [] route.handler = "getInvoiceById" -> "find_by_id"
                                  [] OTHER -> "settings"]]
               /\ UNCHANGED <<resp, cache>>
  /\ UNCHANGED <<invoices, settings, stock, now, users>>

\* await Invoice.countDocuments(query)
CountInvoices(t) ==
  /\ task[t].pc = "count"
  /\ LET tk == task[t]
         total == Cardinality({i \in DOMAIN invoices : invoices[i].hospital = tk.hospitalId})
     IN task' = [task EXCEPT ![t] = [tk EXCEPT !.pc = "find", !.doc = [id |-> total]]]
  /\ UNCHANGED <<resp, invoices, settings, stock, now, users, cache>>

\* await Invoice.find(query)..., then the 200 response
FindInvoices(t) ==
  /\ task[t].pc = "find"
  /\ Answer(t, task[t], getInvoices(task[t], task[t].doc.id))
  /\ UNCHANGED <<invoices, settings, stock, now, users>>

\* await Invoice.findById(id)..., then the response
FindInvoiceById(t) ==
  /\ task[t].pc = "find_by_id"
  /\ Answer(t, task[t], getInvoiceById(task[t]))
  /\ UNCHANGED <<invoices, settings, stock, now, users>>


\* ------------------------------------------------------------ specification
\* Spec: every operation, a few requests of each kind, any interleaving
SpecManual ==
  {Request(1, ManualBase), Request(2, ManualBase),
   Request(1, [ManualBase EXCEPT !.appointmentId = 1]),
   Request(1, [ManualBase EXCEPT !.invoiceType = "dental"])}
SpecConsultation == {Request(1, ConsultationBody(1)), Request(3, ConsultationBody(1))}
SpecLab == {Request(1, LabBody(1, <<1, 2>>))}
SpecPharmacy == {Request(1, PharmacyBody(1))}
SpecUpdates == {Request(1, PaymentBody(i, a)) : i \in 1..2, a \in {Num(1000), Num(2360)}}
SpecWalkIn == {Request(1, WalkInBody("Asha", <<WalkInItem>>))}

Next ==
  \E t \in Tasks :
       \/ CreateInvoice(t, SpecManual)
       \/ GenerateConsultationInvoice(t, SpecConsultation)
       \/ GenerateLabInvoice(t, SpecLab)
       \/ GeneratePharmacyInvoice(t, SpecPharmacy)
       \/ UpdateInvoicePayment(t, SpecUpdates)
       \/ CreatePharmacyInvoice(t, SpecWalkIn)
       \/ CreateLaboratoryInvoice(t, SpecWalkIn)
       \/ CheckExisting(t)
       \/ ResolveSettings(t)
       \/ CreateSettings(t)
       \/ GenerateNumber(t)
       \/ SaveInvoice(t)
       \/ SavePayment(t)

Spec == Init /\ [][Next]_vars


\* ------------------------------------------------------------------ claims
\* two requests neither of which arrived after the other was answered
Concurrent(t, u) ==
  /\ t # u
  /\ task[t].op # "idle" /\ task[u].op # "idle"
  /\ t \notin task[u].after /\ u \notin task[t].after

\* the invoices a request has persisted
CreatedBy(t) == {i \in DOMAIN invoices : invoices[i].request = t}

\* C1: two invoice creations of one tenant that run concurrently never hold the
\* same generated invoice number between number generation and save
C1_ConcurrentNumbersDiffer ==
  \A t, u \in Tasks :
    (/\ Concurrent(t, u)
     /\ task[t].pc = "save" /\ task[u].pc = "save"
     /\ task[t].hospitalId = task[u].hospitalId)
    => task[t].doc.invoiceNumber # task[u].doc.invoiceNumber

\* C2: a client of an existing hospital generates the consultation invoice of
\* appointment A, waits for the answer and asks again; once both handlers have
\* ended there is exactly one invoice of A and the second answer is "already
\* exists" with the id of the invoice the first call created
C2_SecondCallGetsExisting ==
  \A t, u \in Tasks :
    (/\ task[t].op = "consultation" /\ task[u].op = "consultation"
     /\ t \in task[u].after
     /\ task[t].body.appointmentId = task[u].body.appointmentId
     /\ task[t].hospitalId \in Hospitals /\ task[u].hospitalId \in Hospitals
     /\ resp[t].status = 201
     /\ task[t].pc = "done" /\ task[u].pc = "done"
     /\ \A w \in Tasks \ {t, u} : task[w].body.appointmentId # task[t].body.appointmentId)
    => /\ Cardinality({i \in DOMAIN invoices :
                        invoices[i].appointment = task[t].body.appointmentId}) = 1
       /\ resp[u].kind = "exists"
       /\ resp[u].invoiceId \in CreatedBy(t)

\* C3: of two concurrent generateConsultationInvoice requests for one
\* appointment, or generatePharmacyInvoice requests for one prescription, at
\* most one persists an invoice
C3_ConcurrentGenerateOnce ==
  \A t, u \in Tasks :
    (/\ Concurrent(t, u)
     /\ task[t].op = task[u].op
     /\ \/ /\ task[t].op = "consultation"
           /\ task[t].body.appointmentId = task[u].body.appointmentId
        \/ /\ task[t].op = "pharmacy"
           /\ task[t].body.prescriptionId = task[u].body.prescriptionId)
    => ~(CreatedBy(t) # {} /\ CreatedBy(u) # {})

\* C4: every appointment, prescription and lab test is referenced by at most
\* one persisted invoice, and two lab invoice requests for the same tests do
\* not both persist an invoice
C4_OneInvoicePerSource ==
  /\ \A i, j \in DOMAIN invoices :
       i # j =>
         /\ invoices[i].appointment # NoId => invoices[i].appointment # invoices[j].appointment
         /\ invoices[i].prescription # NoId => invoices[i].prescription # invoices[j].prescription
         /\ invoices[i].labTest # NoId => invoices[i].labTest # invoices[j].labTest
  /\ \A t, u \in Tasks :
       (/\ t # u
        /\ task[t].op = "laboratory" /\ task[u].op = "laboratory"
        /\ task[t].body.labTestIds = task[u].body.labTestIds)
       => ~(CreatedBy(t) # {} /\ CreatedBy(u) # {})


\* C5: every persisted invoice is unpaid iff paidAmount <= 0, paid iff
\* paidAmount >= totalAmount, partial otherwise, and its balanceDue is
\* totalAmount - paidAmount, unclamped
C5_PaymentState ==
  \A i \in DOMAIN invoices :
    LET v == invoices[i]
    IN /\ v.paymentStatus = "unpaid" <=> v.paidAmount <= 0
       /\ v.paymentStatus = "paid" <=> v.paidAmount >= v.totalAmount
       /\ v.paymentStatus = "partial" <=> (v.paidAmount > 0 /\ v.paidAmount < v.totalAmount)
       /\ v.balanceDue = v.totalAmount - v.paidAmount

PaymentPaths == {"paidAmount", "paymentMethod", "paymentDate", "balanceDue", "paymentStatus"}

Frozen(invoice) == [f \in (DOMAIN invoice) \ PaymentPaths |-> invoice[f]]

C7_PaymentFrame ==
  [][/\ Len(invoices') >= Len(invoices)
     /\ \A i \in DOMAIN invoices :
          /\ Frozen(invoices'[i]) = Frozen(invoices[i])
          /\ invoices'[i] # invoices[i] =>
               \E t \in Tasks :
                 /\ task[t].pc = "payment_save" /\ task'[t].pc = "done"
                 /\ task[t].body.id = i
                 /\ \A j \in DOMAIN invoices : j # i => invoices'[j] = invoices[j]]_vars

\* a payment update has been saved on one of two persisted invoices
C7_Witness ==
  \E t \in Tasks :
    /\ task[t].op = "payment" /\ resp[t].status = 200
    /\ Len(invoices) >= 2
    /\ invoices[task[t].body.id].paidAmount = task[t].body.paidAmount.v
    /\ invoices[task[t].body.id].paidAmount > 0

\* C8: a creation request that passes the required-field check and refers to a
\* missing patient, doctor, hospital or source document is answered not-found
\* and persists no invoice
RefersToMissing(tk) ==
  CASE tk.op = "manual" ->
         createInvoiceLookup(tk.hospitalId, tk.body) \in {"patient", "doctor", "hospital"}
    [] tk.op = "consultation" ->
         /\ tk.body.appointmentId # NoId
         /\ \/ tk.body.appointmentId \notin Appointments
            \/ Appointment(tk.body.appointmentId).patient \notin Patients
            \/ Appointment(tk.body.appointmentId).doctor \notin Doctors
            \/ tk.hospitalId \notin Hospitals
    [] tk.op = "pharmacy" ->
         /\ tk.body.prescriptionId # NoId
         /\ \/ tk.body.prescriptionId \notin Prescriptions
            \/ tk.hospitalId \notin Hospitals
    [] tk.op = "laboratory" ->
         /\ tk.body.labTestIds # <<>> /\ tk.body.patientId # NoId
         /\ \/ tk.body.patientId \notin Patients
            \/ foundLabTests(tk.body.labTestIds) = <<>>
            \/ tk.hospitalId \notin Hospitals
    [] OTHER -> FALSE

C8_MissingReferenceIsNotFound ==
  \A t \in Tasks :
    (resp[t] # NoResp /\ RefersToMissing(task[t]))
    => (resp[t].kind = "notfound" /\ CreatedBy(t) = {})

\* C9: a creation request that was answered with a not-found or validation
\* failure has written nothing to the store: no invoice, no billing-settings
\* record, no stock change
CreationOps == {"manual", "walkin-pharmacy", "walkin-laboratory"} \cup GenerateOps

C9_FailureWritesNothing ==
  \A t \in Tasks :
    (/\ task[t].op \in CreationOps
     /\ task[t].pc = "done"
     /\ resp[t].kind \in {"notfound", "validation"})
    => ~task[t].wrote

\* C10: an invoice generated from an appointment has one line item, priced at
\* the tenant's consultation fee for the appointment's category
C10_FeeByCategory ==
  \A i \in DOMAIN invoices :
    LET v == invoices[i]
        tk == task[v.request]
    IN tk.op = "consultation" =>
         /\ Len(v.items) = 1
         /\ v.items[1].unitPrice =
              consultationFee(toLowerCase(Appointment(tk.body.appointmentId).type),
                              settings[v.hospital].consultationFees)

\* ---------------------------------------- SpecTotals: the amounts of creation
TotalsManual ==
  {Request(1, [ManualBase EXCEPT !.items = l]) :
     l \in {<<ItemA, ItemB>>, <<ItemFree>>, <<ItemDiscount>>, <<ItemNegative>>}}
    \cup {Request(1, [ManualBase EXCEPT !.paidAmount = Num(1000)])}
TotalsConsultation == {Request(1, ConsultationBody(a)) : a \in {1, 3}}
TotalsLab == {Request(1, LabBody(1, l)) : l \in {<<2>>, <<1, 2, 3>>}}
TotalsPharmacy == {Request(1, PharmacyBody(1))}

InitTotals ==
  /\ task = [t \in Tasks |-> Idle]
  /\ resp = [t \in Tasks |-> NoResp]
  /\ invoices = <<>>
  /\ settings \in
       {[h \in HospitalIds |-> IF h = 1 THEN s ELSE NoSettings] :
          s \in {NoSettings, ReducedTaxSettings}}
  /\ stock = [m \in MedicationIds |-> 10]
  /\ now = Epoch
  /\ users = {}
  /\ cache = NoCache

NextTotals ==
  \E t \in 1..MaxTotalsTasks :
       \/ CreateInvoice(t, TotalsManual)
       \/ GenerateConsultationInvoice(t, TotalsConsultation)
       \/ GenerateLabInvoice(t, TotalsLab)
       \/ GeneratePharmacyInvoice(t, TotalsPharmacy)
       \/ CheckExisting(t)
       \/ ResolveSettings(t)
       \/ CreateSettings(t)
       \/ GenerateNumber(t)
       \/ SaveInvoice(t)

SpecTotals == InitTotals /\ [][NextTotals]_vars


\* ------------------------------- SpecPayment: payment updates on a few invoices
PaymentManual == {Request(1, ManualBase)}
PaymentConsultation == {Request(1, ConsultationBody(1))}
PaymentUpdates ==
  {Request(1, PaymentBody(i, a)) : i \in 1..2, a \in {Num(1000), Num(5000)}}
    \cup {Request(1, [Body0 EXCEPT !.id = 1, !.paymentMethod = "UPI", !.paymentDate = 1])}

NextPayment ==
  \E t \in Tasks :
       \/ CreateInvoice(t, PaymentManual)
       \/ GenerateConsultationInvoice(t, PaymentConsultation)
       \/ UpdateInvoicePayment(t, PaymentUpdates)
       \/ CheckExisting(t)
       \/ ResolveSettings(t)
       \/ CreateSettings(t)
       \/ GenerateNumber(t)
       \/ SaveInvoice(t)
       \/ SavePayment(t)

SpecPayment == Init /\ [][NextPayment]_vars

\* ------------------------------- SpecNumbering: invoice numbers over months
\* the calendar month changes between two steps of the handlers
Tick ==
  /\ yearMonth(now) < MaxMonth
  /\ now' = startOfMonth(now) + TicksPerMonth
  /\ UNCHANGED <<task, resp, invoices, settings, stock, users, cache>>

NumberingManual == {Request(1, ManualBase), Request(2, ManualBase)}

NextNumbering ==
  \/ Tick
  \/ \E t \in 1..MaxNumberingTasks :
       \/ CreateInvoice(t, NumberingManual)
       \/ ResolveSettings(t)
       \/ CreateSettings(t)
       \/ GenerateNumber(t)
       \/ SaveInvoice(t)

SpecNumbering == Init /\ [][NextNumbering]_vars

\* the parts of PREFIX-YYMM-SEQ
PrefixOf(invoice) == invoice.invoiceNumber[1]
MonthOf(invoice) == invoice.invoiceNumber[2]
SeqOf(invoice) == invoice.invoiceNumber[3]

SameScope(a, b) ==
  /\ a.hospital = b.hospital
  /\ PrefixOf(a) = PrefixOf(b)
  /\ MonthOf(a) = MonthOf(b)

\* C11: the first invoice a tenant issues under a prefix in a month carries
\* seq 1, whatever it issued in earlier months, and a later invoice of the
\* same tenant, prefix and month carries a strictly larger seq
C11_SeqScopedToMonth ==
  \A i \in DOMAIN invoices :
    /\ (\A j \in 1..(i - 1) : ~SameScope(invoices[j], invoices[i]))
         => SeqOf(invoices[i]) = 1
    /\ \A j \in 1..(i - 1) :
         SameScope(invoices[j], invoices[i]) => SeqOf(invoices[j]) < SeqOf(invoices[i])

\* C12: no two persisted invoices, of whatever tenants, share an invoiceNumber
C12_NumbersUnique ==
  \A i, j \in DOMAIN invoices :
    i # j => invoices[i].invoiceNumber # invoices[j].invoiceNumber

\* two tenants generated the same number: one invoice is persisted, the other
\* creation was refused by the unique index
C12_Witness ==
  \E t, u \in Tasks :
    /\ task[t].hospitalId = 1 /\ task[u].hospitalId = 2
    /\ {resp[t].kind, resp[u].kind} = {"success", "duplicate"}
    /\ CreatedBy(t) \cup CreatedBy(u) # {}

\* ------------------------- SpecPaymentDate: payments on one tenant's invoices
\* tenant 1 has its settings record
InitPaymentDate ==
  /\ task = [t \in Tasks |-> Idle]
  /\ resp = [t \in Tasks |-> NoResp]
  /\ invoices = <<>>
  /\ settings = [h \in HospitalIds |-> IF h = 1 THEN DefaultSettings ELSE NoSettings]
  /\ stock = [m \in MedicationIds |-> 10]
  /\ now = Epoch
  /\ users = {}
  /\ cache = NoCache

PaymentDateManual ==
  {Request(1, ManualBase), Request(1, [ManualBase EXCEPT !.paidAmount = Num(2360)])}
PaymentDateUpdates == {Request(1, PaymentBody(1, a)) : a \in {Num(0), Num(2360)}}

NextPaymentDate ==
  \/ Tick
  \/ \E t \in 1..MaxPaymentDateTasks :
       \/ CreateInvoice(t, PaymentDateManual)
       \/ UpdateInvoicePayment(t, PaymentDateUpdates)
       \/ ResolveSettings(t)
       \/ GenerateNumber(t)
       \/ SaveInvoice(t)
       \/ SavePayment(t)

SpecPaymentDate == InitPaymentDate /\ [][NextPaymentDate]_vars

\* C13: an invoice whose paidAmount is <= 0 is unpaid and has no paymentDate,
\* also after a paid invoice was lowered to 0
C13_UnpaidHasNoDate ==
  \A i \in DOMAIN invoices :
    invoices[i].paidAmount <= 0 =>
      (invoices[i].paymentStatus = "unpaid" /\ invoices[i].paymentDate = NoDate)

\* C14: a paid invoice always has its paymentDate, and the save of a payment
\* update that supplies no paymentDate and read the invoice with its
\* paymentDate set leaves that date as it is
PaidHasDate ==
  \A i \in DOMAIN invoices :
    invoices[i].paymentStatus = "paid" => invoices[i].paymentDate # NoDate

C14_PaidDateKept ==
  /\ []PaidHasDate
  /\ [][\A t \in Tasks :
          (/\ task[t].pc = "payment_save" /\ task'[t].pc = "done"
           /\ task[t].body.paymentDate = NoDate
           /\ task[t].orig.paymentDate # NoDate)
          => invoices'[task[t].orig.id].paymentDate = invoices[task[t].orig.id].paymentDate]_vars

\* an invoice paid in month 1 is still dated month 1 after an update that
\* arrived once it had been created, carried no paymentDate and paid it in
\* full again in month 2
C14_Witness ==
  \E t \in Tasks :
    /\ task[t].op = "payment" /\ resp[t].status = 200
    /\ task[t].body.paymentDate = NoDate
    /\ task[t].body.paidAmount = Num(2360)
    /\ task[t].after # {}
    /\ yearMonth(now) = 2
    /\ invoices[1].paymentStatus = "paid" /\ yearMonth(invoices[1].paymentDate) = 1

\* ------------------------------------ SpecItems: the line items of a creation
ItemsManual ==
  {Request(1, [ManualBase EXCEPT !.items = l]) :
     l \in {<<>>, <<ItemZeroAmount>>, <<ItemDiscount, ItemA>>, <<ItemFree>>,
            <<ItemNegative>>, <<ItemNegativePrice>>}}
ItemsPharmacy == {Request(1, PharmacyBody(r)) : r \in {1, 3}}

NextItems ==
  \E t \in 1..MaxItemsTasks :
       \/ CreateInvoice(t, ItemsManual)
       \/ GeneratePharmacyInvoice(t, ItemsPharmacy)
       \/ CheckExisting(t)
       \/ ResolveSettings(t)
       \/ CreateSettings(t)
       \/ GenerateNumber(t)
       \/ SaveInvoice(t)

SpecItems == Init /\ [][NextItems]_vars

\* C15: a persisted invoice keeps the amount of every line item whose request
\* supplied one, a supplied 0 included, and holds quantity * unitPrice only
\* for an item that supplied none
C15_SuppliedAmountKept ==
  \A i \in DOMAIN invoices :
    LET sent == task[invoices[i].request].body.items
        kept == invoices[i].items
    IN \A k \in DOMAIN kept :
         kept[k].amount =
           IF sent[k].amount.k = "num" THEN sent[k].amount.v
           ELSE sent[k].quantity * sent[k].unitPrice

\* C16: a creation, no other request running beside it, whose item list is
\* empty or whose item amounts are all <= 0 is answered with a validation
\* error and persists no invoice
NothingToBill(items) ==
  \A k \in DOMAIN items : ItemAmount(items[k]) <= 0

C16_NothingToBillRejected ==
  \A t \in Tasks :
    (/\ task[t].op = "manual" \/ task[t].inner
     /\ task[t].pc = "done"
     /\ \A u \in Tasks : ~Concurrent(t, u)
     /\ NothingToBill(task[t].body.items))
    => (resp[t].kind = "validation" /\ CreatedBy(t) = {})

\* C17: a creation, through any entry point and with no other request running
\* beside it, with a line item of negative quantity or negative unit price is
\* answered with a validation error and persists no invoice
HasNegativeItem(items) ==
  \E k \in DOMAIN items : items[k].quantity < 0 \/ items[k].unitPrice < 0

C17_NegativeItemRejected ==
  \A t \in Tasks :
    (/\ task[t].op \in CreationOps
     /\ task[t].pc = "done"
     /\ \A u \in Tasks : ~Concurrent(t, u)
     /\ HasNegativeItem(task[t].body.items))
    => (resp[t].kind = "validation" /\ CreatedBy(t) = {})

\* ----------------------------------- SpecWalkInSales: sales over the counter
WalkInSales ==
  {Request(1, WalkInBody("Asha", <<WalkInItem>>)),
   Request(2, WalkInBody("Asha", <<WalkInItem, WalkInItem>>)),
   Request(1, WalkInBody("", <<WalkInItem>>)),
   Request(1, WalkInBody("Asha", <<>>))}

NextWalkInSales ==
  \E t \in Tasks :
       \/ CreatePharmacyInvoice(t, WalkInSales)
       \/ CreateLaboratoryInvoice(t, WalkInSales)

SpecWalkInSales == Init /\ [][NextWalkInSales]_vars

SettingsReads == {Request(1, Body0)}
SettingsUpdates ==
  {Request(1, [Body0 EXCEPT !.gstPercentage = Num(12)]),
   Request(1, [Body0 EXCEPT !.gstPercentage = Num(150)]),
   Request(1, [Body0 EXCEPT !.consultationFees = [NoFees EXCEPT !.followUp = Num(-50)]])}

NextSettings ==
  \E t \in Tasks :
       \/ GetBillingSettings(t, SettingsReads)
       \/ UpdateBillingSettings(t, SettingsUpdates)
       \/ ResolveSettings(t)
       \/ CreateSettings(t)
       \/ LoadSettings(t)
       \/ SaveSettings(t)

SpecSettings == Init /\ [][NextSettings]_vars

\* C19: a request for the billing settings of a tenant, whether or not another
\* one runs beside it and whether or not the tenant has a record yet, is
\* answered with the settings, and the tenant then has its settings record
C19_ResolveNeverFails ==
  \A t \in Tasks :
    (task[t].op = "settings-get" /\ task[t].pc = "done")
    => (resp[t].status = 200 /\ settings[task[t].hospitalId].exists)

\* C20: every stored settings record has its tax percentage within 0..100 and
\* no negative consultation fee
C20_SettingsInRange ==
  \A h \in HospitalIds :
    settings[h].exists =>
      /\ settings[h].gstPercentage >= 0 /\ settings[h].gstPercentage <= 100
      /\ \A tier \in DOMAIN settings[h].consultationFees :
           settings[h].consultationFees[tier] >= 0

\* ------------------------------- SpecStatistics: reports over a few invoices
\* tenant 1 has its settings record; it is late on the last day of month 1
InitStatistics ==
  /\ task = [t \in Tasks |-> Idle]
  /\ resp = [t \in Tasks |-> NoResp]
  /\ invoices = <<>>
  /\ settings = [h \in HospitalIds |-> IF h = 1 THEN DefaultSettings ELSE NoSettings]
  /\ stock = [m \in MedicationIds |-> 10]
  /\ now = Epoch + TicksPerMonth - 1
  /\ users = {}
  /\ cache = NoCache

StatisticsPath == <<Word("statistics")>>

StatisticsManual == {Request(1, ManualBase)}
StatisticsConsultation == {Request(1, ConsultationBody(1))}
StatisticsReads ==
  {Request(1, [Body0 EXCEPT !.path = StatisticsPath, !.period = p, !.role = "admin"]) :
     p \in {"thisMonth", "lastMonth"}}

NextStatistics ==
  \/ Tick
  \/ \E t \in 1..MaxStatisticsTasks :
       \/ CreateInvoice(t, StatisticsManual)
       \/ GenerateConsultationInvoice(t, StatisticsConsultation)
       \/ Get(t, StatisticsReads)
       \/ CheckExisting(t)
       \/ ResolveSettings(t)
       \/ GenerateNumber(t)
       \/ SaveInvoice(t)
       \/ FindInvoiceById(t)

SpecStatistics == InitStatistics /\ [][NextStatistics]_vars

\* a GET /billing/statistics request of a user the route authorizes
IsStatisticsRequest(tk) ==
  /\ tk.body.path = StatisticsPath
  /\ tk.body.role \in {"admin", "accountant"}

\* the named range of a request, by the calendar
RangeOfPeriod(period, d) ==
  CASE period = "thisMonth" -> Range(yearMonth(d) * TicksPerMonth, d)
    [] OTHER -> Range((yearMonth(d) - 1) * TicksPerMonth, yearMonth(d) * TicksPerMonth - 1)

InvoicesInRange(h, range) ==
  {i \in DOMAIN invoices :
     /\ invoices[i].hospital = h
     /\ invoices[i].invoiceDate >= range.start /\ invoices[i].invoiceDate <= range.end}

InvoicesOfType(ids, type) == {i \in ids : invoices[i].invoiceType = type}

\* C21: the step that answers a statistics request of a tenant answers it with
\* a summary of the count and the sums of totalAmount, paidAmount and
\* balanceDue over exactly the tenant's invoices dated within the range, and
\* with byType holding the same four metrics for the types that occur there
\* and no entry for a type that does not
C21_StatisticsOfRange ==
  [][\A t \in Tasks :
       (IsStatisticsRequest(task'[t]) /\ resp[t] = NoResp /\ resp'[t] # NoResp)
       => LET ids == InvoicesInRange(task'[t].hospitalId,
                                     RangeOfPeriod(task'[t].body.period, now))
          IN /\ resp'[t].status = 200
             /\ resp'[t].data.summary =
                  [totalInvoices |-> Cardinality(ids),
                   totalAmount |-> SumField(ids, "totalAmount"),
                   paidAmount |-> SumField(ids, "paidAmount"),
                   pendingAmount |-> SumField(ids, "balanceDue")]
             /\ DOMAIN resp'[t].data.byType = {invoices[i].invoiceType : i \in ids}
             /\ \A type \in DOMAIN resp'[t].data.byType :
                  resp'[t].data.byType[type] =
                    [count |-> Cardinality(InvoicesOfType(ids, type)),
                     totalAmount |-> SumField(InvoicesOfType(ids, type), "totalAmount"),
                     paidAmount |-> SumField(InvoicesOfType(ids, type), "paidAmount"),
                     pendingAmount |-> SumField(InvoicesOfType(ids, type), "balanceDue")]]_vars

\* C22: a this-month statistics request of a tenant that arrived when a manual
\* invoice and a consultation invoice of this month were persisted for the
\* tenant was handed to the statistics handler and, once answered, was
\* answered 200 with summary.totalInvoices >= 2 and byType.consultation.count >= 1
C22_ThisMonthAfterTwoInvoices ==
  \A t \in Tasks :
    (/\ IsStatisticsRequest(task[t])
     /\ task[t].body.period = "thisMonth"
     /\ task[t].pc = "done"
     /\ \E i, j \in 1..task[t].seen :
          /\ invoices[i].hospital = task[t].hospitalId
          /\ invoices[j].hospital = task[t].hospitalId
          /\ task[invoices[i].request].op = "manual"
          /\ task[invoices[j].request].op = "consultation"
          /\ yearMonth(invoices[i].invoiceDate) = yearMonth(now)
          /\ yearMonth(invoices[j].invoiceDate) = yearMonth(now))
    => /\ task[t].op = "getBillingStatistics"
       /\ resp[t].status = 200
       /\ resp[t].data.summary.totalInvoices >= 2
       /\ "consultation" \in DOMAIN resp[t].data.byType
       /\ resp[t].data.byType["consultation"].count >= 1

\* C23: of the ranges computed for the clock's reading, lastMonth holds every
\* invoice dated in the previous calendar month and none dated in this month,
\* yesterday holds exactly the invoices dated on the previous calendar day,
\* and each of the other ranges ends at the reading
InRange(d, range) == d >= range.start /\ d <= range.end

C23_ClosedPeriods ==
  LET ranges == getDateRanges(now)
  IN /\ \A i \in DOMAIN invoices :
          LET d == invoices[i].invoiceDate
          IN /\ yearMonth(d) = yearMonth(now) - 1 => InRange(d, ranges.lastMonth)
             /\ yearMonth(d) = yearMonth(now) => ~InRange(d, ranges.lastMonth)
             /\ (d \div TicksPerDay = now \div TicksPerDay - 1)
                  <=> InRange(d, ranges.yesterday)
     /\ \A p \in Periods \ {"yesterday", "lastMonth"} : ranges[p].end = now

\* ------------------------ SpecPaymentInput: the amounts a payment update sends
PaymentInputManual == {Request(1, [ManualBase EXCEPT !.paidAmount = Num(1000)])}
PaymentInputUpdates ==
  {Request(1, PaymentBody(1, a)) : a \in {Num(0), Num(-100), NotANumber, Num(500)}}
    \cup {Request(1, PaymentBody(2, Num(500)))}

NextPaymentInput ==
  \E t \in 1..MaxPaymentInputTasks :
       \/ CreateInvoice(t, PaymentInputManual)
       \/ UpdateInvoicePayment(t, PaymentInputUpdates)
       \/ ResolveSettings(t)
       \/ GenerateNumber(t)
       \/ SaveInvoice(t)
       \/ SavePayment(t)

SpecPaymentInput == InitPaymentDate /\ [][NextPaymentInput]_vars

\* C24: a payment update that sends an amount which is not a positive number
\* ends with a validation error and without a write, and a payment update
\* that names an invoice which does not exist is answered not-found in the
\* step that looks the invoice up, which writes nothing
NotPositiveAmount(body) ==
  /\ body.paidAmount.k # "undef"
  /\ ~(body.paidAmount.k = "num" /\ body.paidAmount.v > 0)

BadAmountRejected ==
  \A t \in Tasks :
    (/\ task[t].op = "payment" /\ task[t].pc = "done"
     /\ resp[t].kind # "notfound"
     /\ NotPositiveAmount(task[t].body))
    => (resp[t].kind = "validation" /\ ~task[t].wrote)

C24_PaymentInputChecked ==
  /\ []BadAmountRejected
  /\ [][\A t \in Tasks :
          (/\ task[t].op = "idle" /\ task'[t].op = "payment"
           /\ task'[t].body.id \notin DOMAIN invoices)
          => (resp'[t].kind = "notfound" /\ invoices' = invoices)]_vars

\* -------------- SpecConcurrentPayments: two payments recorded on one invoice
ConcurrentPaymentsManual == {Request(1, [ManualBase EXCEPT !.paidAmount = Num(1000)])}
ConcurrentPaymentsUpdates == {Request(1, PaymentBody(1, a)) : a \in {Num(1500), Num(2360)}}

NextConcurrentPayments ==
  \E t \in 1..MaxConcurrentPaymentsTasks :
       \/ CreateInvoice(t, ConcurrentPaymentsManual)
       \/ UpdateInvoicePayment(t, ConcurrentPaymentsUpdates)
       \/ ResolveSettings(t)
       \/ GenerateNumber(t)
       \/ SaveInvoice(t)
       \/ SavePayment(t)

SpecConcurrentPayments == InitPaymentDate /\ [][NextConcurrentPayments]_vars

\* the payment status and balance that belong to a paid amount and a total
StatusOf(paid, total) ==
  IF paid <= 0 THEN "unpaid" ELSE IF paid < total THEN "partial" ELSE "paid"

\* C25: once two concurrent payment updates of one invoice have both been
\* saved, the invoice holds the paidAmount of one of them, and its
\* paymentStatus and balanceDue are those of that paidAmount and its totalAmount
C25_ConcurrentPaymentsConsistent ==
  \A t, u \in Tasks :
    (/\ Concurrent(t, u)
     /\ task[t].op = "payment" /\ task[u].op = "payment"
     /\ task[t].body.id = task[u].body.id
     /\ resp[t].status = 200 /\ resp[u].status = 200)
    => LET v == invoices[task[t].body.id]
       IN /\ v.paidAmount \in {task[t].body.paidAmount.v, task[u].body.paidAmount.v}
          /\ v.paymentStatus = StatusOf(v.paidAmount, v.totalAmount)
          /\ v.balanceDue = v.totalAmount - v.paidAmount

\* ------------------------------- SpecTenants: two tenants on one billing API
\* tenant 1 has its settings record; the cache is switched on or off
InitTenants ==
  /\ task = [t \in Tasks |-> Idle]
  /\ resp = [t \in Tasks |-> NoResp]
  /\ invoices = <<>>
  /\ settings = [h \in HospitalIds |-> IF h = 1 THEN DefaultSettings ELSE NoSettings]
  /\ stock = [m \in MedicationIds |-> 10]
  /\ now = Epoch
  /\ users = {}
  /\ cache \in {NoCache, [NoCache EXCEPT !.enabled = TRUE]}

TenantsManual == {Request(1, ManualBase)}
TenantsUpdates == {Request(2, PaymentBody(1, Num(1000)))}
TenantsReads ==
  {Request(h, [Body0 EXCEPT !.path = <<Word("invoices")>>, !.role = "staff"]) : h \in {1, 2}}
    \cup {Request(2, [Body0 EXCEPT !.path = <<Word("invoices"), IdText(1)>>, !.role = "staff"]),
          Request(2, [Body0 EXCEPT !.path = <<Word("settings")>>, !.role = "staff"])}

NextTenants ==
  \E t \in 1..MaxTenantsTasks :
       \/ CreateInvoice(t, TenantsManual)
       \/ UpdateInvoicePayment(t, TenantsUpdates)
       \/ Get(t, TenantsReads)
       \/ ResolveSettings(t)
       \/ CreateSettings(t)
       \/ GenerateNumber(t)
       \/ SaveInvoice(t)
       \/ SavePayment(t)
       \/ CountInvoices(t)
       \/ FindInvoices(t)
       \/ FindInvoiceById(t)

SpecTenants == InitTenants /\ [][NextTenants]_vars

\* C26: every invoice a successful read hands to its caller, from the store
\* or from the cache, belongs to the caller's tenant; a payment update that
\* wrote did so on an invoice of its caller's tenant; and a step changes the
\* settings record of the tenant of the request that takes it, and no other
ReadsOwnInvoices ==
  \A t \in Tasks :
    (/\ task[t].op \in {"getInvoices", "getInvoiceById"}
     /\ resp[t].status = 200)
    => \A i \in resp[t].data : invoices[i].hospital = task[t].hospitalId

PaysOwnInvoices ==
  \A t \in Tasks :
    (task[t].op = "payment" /\ task[t].wrote)
    => invoices[task[t].body.id].hospital = task[t].hospitalId

C26_TenantScoped ==
  /\ [](ReadsOwnInvoices /\ PaysOwnInvoices)
  /\ [][\A h \in HospitalIds :
          settings'[h] # settings[h] =>
            \E t \in Tasks : task'[t] # task[t] /\ task'[t].hospitalId = h]_vars

\* C27: a walk-in sale by a user of an existing hospital that names its
\* customer and carries at least one item of a known medication is answered
\* with success and has persisted an invoice of customer type walk-in that
\* holds the customer's name and no patient
C27_WalkInSaleSucceeds ==
  \A t \in Tasks :
    (/\ task[t].op \in {"walkin-pharmacy", "walkin-laboratory"}
     /\ task[t].pc = "done"
     /\ task[t].hospitalId \in Hospitals
     /\ task[t].body.customerName # ""
     /\ task[t].body.items # <<>>
     /\ \A k \in DOMAIN task[t].body.items :
          task[t].body.items[k].medicationId \in MedicationIds)
    => /\ resp[t].kind = "success"
       /\ \E i \in CreatedBy(t) :
            /\ invoices[i].customerType = "walk-in"
            /\ invoices[i].customerName = task[t].body.customerName
            /\ invoices[i].patient = NoId

----------------------------------------------------------------------------
\* registration (authController.register)
\*
\* A registration request is unauthenticated: its hospitalId is the one of the
\* request body. Every await of the handler is a step. A user record names the
\* request that created it; NoId names a user that was there from the start.

User(email, firstName, h, by) ==
  [email |-> email, firstName |-> firstName, hospital |-> h, createdBy |-> by]

\* User.email is declared unique
emailTaken(email) == \E u \in users : u.email = email

\* const { ..., hospitalId, ... } = req.body, then Hospital.findById(hospitalId)
Register(t, Requests) ==
  /\ Arrives(t)
  /\ \E rq \in Requests :
       LET tk == NewTask("register", rq.hospitalId, rq.body) IN
       IF rq.hospitalId \notin Hospitals
       THEN Finish(t, tk, Resp(404, "notfound", NoId))
       ELSE /\ task' = [task EXCEPT ![t] = [tk EXCEPT !.pc = "delete_user"]]
            /\ resp' = resp
  /\ UNCHANGED <<invoices, settings, stock, now, users, cache>>

\* await User.deleteOne({ email })
DeleteUser(t) ==
  /\ task[t].pc = "delete_user"
  /\ users' = {u \in users : u.email # task[t].body.email}
  /\ task' = [task EXCEPT ![t].pc = "save_user", ![t].wrote = TRUE]
  /\ UNCHANGED <<resp, invoices, settings, stock, now, cache>>

\* new User({ firstName: firstName || 'Test', ... }) and await user.save(); a
\* clash on the unique email rejects the save and the catch answers 500
SaveUser(t) ==
  /\ task[t].pc = "save_user"
  /\ LET tk == task[t]
         firstName == IF tk.body.firstName = "" THEN "Test" ELSE tk.body.firstName
     IN IF emailTaken(tk.body.email)
        THEN /\ Finish(t, tk, Resp(500, "error", NoId))
             /\ users' = users
        ELSE /\ users' = users \cup {User(tk.body.email, firstName, tk.hospitalId, t)}
             /\ task' = [task EXCEPT ![t].pc = "generate_tokens"]
             /\ resp' = resp
  /\ UNCHANGED <<invoices, settings, stock, now, cache>>

\* User.findById(user._id).populate('hospital') and generateTokens, which
\* stores a refresh token: it resolves and the handler answers 201, or it
\* rejects and the catch answers 500
GenerateTokens(t) ==
  /\ task[t].pc = "generate_tokens"
  /\ \E resolved \in BOOLEAN :
       Finish(t, task[t], IF resolved THEN Resp(201, "success", NoId)
                                      ELSE Resp(500, "error", NoId))
  /\ UNCHANGED <<invoices, settings, stock, now, users, cache>>

ExistingUser == User("asha@example.com", "Asha", 1, NoId)

RegisterBody(email, firstName) ==
  [Body0 EXCEPT !.email = email, !.firstName = firstName]

Registrations ==
  {Request(1, RegisterBody("asha@example.com", "Mallory")),
   Request(1, RegisterBody("ravi@example.com", "Ravi")),
   Request(2, RegisterBody("ravi@example.com", "")),
   Request(3, RegisterBody("asha@example.com", "Mallory"))}

InitRegister ==
  /\ task = [t \in Tasks |-> Idle]
  /\ resp = [t \in Tasks |-> NoResp]
  /\ invoices = <<>>
  /\ settings = [h \in HospitalIds |-> NoSettings]
  /\ stock = [m \in MedicationIds |-> 10]
  /\ now = Epoch
  /\ users = {ExistingUser}
  /\ cache = NoCache

NextRegister ==
  \E t \in 1..MaxRegisterTasks :
    \/ Register(t, Registrations)
    \/ DeleteUser(t)
    \/ SaveUser(t)
    \/ GenerateTokens(t)

SpecRegister == InitRegister /\ [][NextRegister]_vars

\* a finished registration for an email that a user present from the start,
\* or a user registered by a request answered with success before this one
\* arrived, already holds
RegistersTakenEmail(t) ==
  /\ task[t].op = "register"
  /\ task[t].pc = "done"
  /\ task[t].hospitalId \in Hospitals
  /\ \/ task[t].body.email = ExistingUser.email
     \/ \E u \in task[t].after :
          /\ task[u].op = "register"
          /\ resp[u].status = 201
          /\ task[u].body.email = task[t].body.email

\* C28: registering with an email that already belongs to an existing user is
\* answered 400 (already exists), and the existing user record stays in place
\* unchanged: the user present from the start is never removed or altered
C28_DuplicateEmailRejected ==
  /\ \A t \in Tasks : RegistersTakenEmail(t) => resp[t].status = 400
  /\ ExistingUser \in users

----------------------------------------------------------------------------
\* C29: whenever a generate handler has answered its caller with success
\* (201), the invoice is persisted at that moment and the response carries
\* it, and once the handler chain has ended, the inner creation did not fail
C29_SuccessAfterPersistence ==
  \A t \in Tasks :
    (/\ task[t].op \in GenerateOps
     /\ resp[t].status = 201
     /\ resp[t].kind = "success")
    => /\ resp[t].invoiceId \in CreatedBy(t)
       /\ task[t].pc = "done" => task[t].outcome = "success"

----------------------------------------------------------------------------
\* C30: a valid creation request that overlaps no other request succeeds and
\* persists its invoice; in particular it is never refused as a duplicate
\* because another tenant holds the number derived from this tenant's count
C30_SequentialCreationSucceeds ==
  \A t \in Tasks :
    (/\ task[t].op = "manual"
     /\ task[t].pc = "done"
     /\ task[t].hospitalId \in Hospitals
     /\ \A u \in Tasks \ {t} : ~Concurrent(t, u))
    => /\ resp[t].kind = "success"
       /\ resp[t].invoiceId \in CreatedBy(t)

====
